---- MODULE Spec2Model ----
(***************************************************************************)
(* The signature and position ledger of psar-backtesting:                 *)
(* signatures.py (Position, Signature, SignatureManager), the commands of *)
(* bt.py that change or read the ledger, and the market clock of          *)
(* config.py.  One action per operation; every action is the whole        *)
(* operation, its trailing _save included.                                *)
(*                                                                         *)
(* Conventions.  Optional[x] is a sequence: None is <<>>, a value v is     *)
(* <<v>>.  A Python dict that the code iterates (self.signatures) is a     *)
(* sequence in insertion order; a dict that is only indexed (hash_index,   *)
(* positions, price maps) is a function.  Text that the code slices or     *)
(* matches by prefix (file_hash, signature_id) is a sequence of            *)
(* one-character strings; other text is a string.                          *)
(***************************************************************************)
EXTENDS Integers, Sequences, FiniteSets, TLC

VARIABLES
    signatures,   \* SignatureManager.signatures: signature_id -> Signature, in insertion order
    hash_index,   \* SignatureManager.hash_index: file_hash -> signature_id
    disk,         \* SIGNATURES_FILE: None, or the JSON document _save wrote
    runs,         \* RUNS_DIR: output_file path -> content of the artifact
    clock,        \* wall clock, seconds since Monday 00:00:00 (US/Eastern)
    ret           \* what the last operation returned, and the calls it made

vars == <<signatures, hash_index, disk, runs, clock, ret>>

---------------------------------------------------------------------------
(* Bounds of the model and constants of the program *)

\* the clock starts on Friday 15:59:59 and runs for MaxTicks seconds, across the close of the market
ClockStart == 403199
MaxTicks == 1
\* at most MaxSigs signatures are stored at a time
MaxSigs == 2

SecondsPerDay == 24 * 60 * 60
\* MARKET_OPEN = time(9, 30), MARKET_CLOSE = time(16, 0), in seconds of the day
MARKET_OPEN == 34200
MARKET_CLOSE == 57600

None == <<>>
Some(v) == <<v>>

Modes == {"strong", "early", "all", "dividend"}

Tickers == {"AA", "BB", "CC", "DD"}

\* the report files cmd_process is given: two files hold the same content,
\* and the third content ends like a separator followed by a mode
Files == { [name |-> "a.html", content |-> "x"],
           [name |-> "b.html", content |-> "x"],
           [name |-> "c.html", content |-> "x:all"] }
\* the process commands that are run: file and mode
Jobs == { <<"a.html", "strong">>, <<"a.html", "early">>, <<"a.html", "all">>,
          <<"a.html", "dividend">>, <<"b.html", "dividend">>,
          <<"c.html", "strong">> }
\* a file whose fingerprint under each mode shares its leading digit with
\* that of "x" under the same mode: processed only under SpecCollide
CollidingFiles == { [name |-> "z.html", content |-> "z"] }
CollidingJobs == { <<"a.html", "strong">>, <<"a.html", "all">>,
                   <<"z.html", "all">> }
\* the commands run under SpecAPI
APIJobs == { <<"a.html", "strong">>, <<"a.html", "early">> }

\* file_parser.parse_content on the contents of the model: the categorized
\* lists, each without duplicates
parse_content(content) ==
    IF content = "x"
    THEN [strong_buys |-> <<"AA">>, early_buys |-> <<"AA", "BB">>,
          buys |-> <<"BB", "CC">>, dividends |-> <<"DD">>, sells |-> <<>>]
    ELSE [strong_buys |-> <<"BB">>, early_buys |-> <<>>,
          buys |-> <<>>, dividends |-> <<>>, sells |-> <<>>]

\* what the price feed may hold at entry, ticker -> price: every ticker
\* priced, or one ticker only and that one quoted at 0
EntryFeeds ==
    { [t \in Tickers |-> IF t = "BB" THEN 4 ELSE 2],
      [t \in {"AA"} |-> 0] }
\* the current quotes, ticker -> price: two tickers have none
CurrentQuotes == [t \in {"AA", "BB"} |-> 3]
\* the price given to close --price
ManualPrices == {1}
\* the tickers given to close
CloseTickers == {"AA", "DD"}

---------------------------------------------------------------------------
(* Sequences and dicts *)

Range(s) == {s[i] : i \in DOMAIN s}

RECURSIVE SelectSeq2(_, _)
\* the elements of s not in the set drop, in order
SelectSeq2(s, drop) ==
    IF s = <<>> THEN <<>>
    ELSE IF Head(s) \in drop THEN SelectSeq2(Tail(s), drop)
         ELSE <<Head(s)>> \o SelectSeq2(Tail(s), drop)

\* s.startswith(p)
StartsWith(s, p) == Len(p) <= Len(s) /\ SubSeq(s, 1, Len(p)) = p

\* keys of the signatures dict
Keys(sigs) == {sigs[i].signature_id : i \in DOMAIN sigs}
\* sigs[id], for id in Keys(sigs)
Lookup(sigs, id) == sigs[CHOOSE i \in DOMAIN sigs : sigs[i].signature_id = id]
\* sigs[sig.signature_id] = sig: an existing key keeps its place
DictSet(sigs, sig) ==
    IF sig.signature_id \in Keys(sigs)
    THEN [i \in DOMAIN sigs |->
            IF sigs[i].signature_id = sig.signature_id THEN sig ELSE sigs[i]]
    ELSE Append(sigs, sig)
\* del sigs[id]
DictDel(sigs, id) ==
    LET keep == {i \in DOMAIN sigs : sigs[i].signature_id # id}
        F[i \in 0..Len(sigs)] ==
            IF i = 0 THEN <<>>
            ELSE IF i \in keep THEN Append(F[i - 1], sigs[i]) ELSE F[i - 1]
    IN F[Len(sigs)]

\* a function without the key k
Without(f, k) == [x \in DOMAIN f \ {k} |-> f[x]]
\* f[k] = v
With(f, k, v) == [x \in DOMAIN f \cup {k} |-> IF x = k THEN v ELSE f[x]]

---------------------------------------------------------------------------
(* config.py: the market clock *)

Weekday(t) == (t \div SecondsPerDay) % 7      \* Monday = 0
TimeOfDay(t) == t % SecondsPerDay
\* strftime("%Y-%m-%d"): the calendar day
DateStr(t) == t \div SecondsPerDay

\* get_market_status with the opening instant still counted as pre-market
get_market_status_open_exclusive(t) ==
    IF Weekday(t) >= 5
    THEN [is_open |-> FALSE, price_type |-> "previous_close",
          reference_date |-> DateStr(t),
          description |-> "Weekend - using Friday close"]
    ELSE IF TimeOfDay(t) <= MARKET_OPEN
    THEN [is_open |-> FALSE, price_type |-> "previous_close",
          reference_date |-> DateStr(t),
          description |-> "Pre-market - using previous close"]
    ELSE IF TimeOfDay(t) >= MARKET_CLOSE
    THEN [is_open |-> FALSE, price_type |-> "close",
          reference_date |-> DateStr(t),
          description |-> "After hours - using today close"]
    ELSE [is_open |-> TRUE, price_type |-> "open",
          reference_date |-> DateStr(t),
          description |-> "Market open - using today open"]

get_market_status(t) ==
    IF Weekday(t) >= 5
    THEN [is_open |-> FALSE, price_type |-> "previous_close",
          reference_date |-> DateStr(t),
          description |-> "Weekend - using Friday close"]
    ELSE IF TimeOfDay(t) < MARKET_OPEN
    THEN [is_open |-> FALSE, price_type |-> "previous_close",
          reference_date |-> DateStr(t),
          description |-> "Pre-market - using previous close"]
    ELSE IF TimeOfDay(t) >= MARKET_CLOSE
    THEN [is_open |-> FALSE, price_type |-> "close",
          reference_date |-> DateStr(t),
          description |-> "After hours - using today close"]
    ELSE [is_open |-> TRUE, price_type |-> "open",
          reference_date |-> DateStr(t),
          description |-> "Market open - using today open"]

---------------------------------------------------------------------------
(* Text: timestamps and fingerprints *)

Digits == <<"0", "1", "2", "3", "4", "5", "6", "7", "8", "9">>
Digit(n) == Digits[n + 1]
TwoDigits(n) == <<Digit((n \div 10) % 10), Digit(n % 10)>>

\* now.strftime('%Y%m%d_%H%M%S'): fixed width, sortable; the date part is
\* the day number
TimeStr(t) ==
    TwoDigits(DateStr(t)) \o <<"_">>
    \o TwoDigits(TimeOfDay(t) \div 3600)
    \o TwoDigits((TimeOfDay(t) \div 60) % 60)
    \o TwoDigits(TimeOfDay(t) % 60)

\* now.isoformat(): fixed width, ordered as the clock
IsoFormat(t) == t

\* the string compute_file_hash hashes: f"{content}:{mode}"
Combined(content, mode) == content \o ":" \o mode

\* hashlib.sha256(...).hexdigest() on the strings the model hashes, scaled
\* from 64 hex digits to 2 and injective; the digests of "z" and "x" under
\* one mode agree in the first digit
sha256_hexdigest(s) ==
    CASE s = "x:strong"       -> <<"a", "1">>
      [] s = "x:early"        -> <<"b", "2">>
      [] s = "x:all"          -> <<"c", "3">>
      [] s = "x:dividend"     -> <<"d", "4">>
      [] s = "x:all:strong"   -> <<"e", "5">>
      [] s = "x:all:early"    -> <<"f", "6">>
      [] s = "x:all:all"      -> <<"0", "7">>
      [] s = "x:all:dividend" -> <<"1", "8">>
      [] s = "z:strong"       -> <<"a", "9">>
      [] s = "z:early"        -> <<"b", "a">>
      [] s = "z:all"          -> <<"c", "b">>
      [] s = "z:dividend"     -> <<"d", "c">>

HashTag == <<"s", "h", "a", "2", "5", "6", ":">>

\* a fingerprint that leaves the mode out
compute_file_hash_content_only(content, mode) ==
    HashTag \o sha256_hexdigest(Combined(content, "all"))

\* SignatureManager.compute_file_hash
compute_file_hash(content, mode) ==
    HashTag \o sha256_hexdigest(Combined(content, mode))

\* file_hash[7:15]: the digits after "sha256:" that go into the identity
\* (8 of 64 in the program, 1 of 2 here)
IdDigits(file_hash) == SubSeq(file_hash, Len(HashTag) + 1, Len(HashTag) + 1)

\* an identity made of the timestamp alone
SignatureId_second_only(now, file_hash) == TimeStr(now)

\* f"{now.strftime('%Y%m%d_%H%M%S')}_{file_hash[7:15]}"
SignatureId(now, file_hash) == TimeStr(now) \o <<"_">> \o IdDigits(file_hash)

---------------------------------------------------------------------------
(* signatures.py: Position *)

\* Position(ticker, category, entry_price, entry_date, entry_type): the
\* dataclass defaults give an open position without exit fields
NewPosition(ticker, category, entry_price, entry_date, entry_type) ==
    [ticker |-> ticker, category |-> category, entry_price |-> entry_price,
     entry_date |-> entry_date, entry_type |-> entry_type,
     status |-> "open", exit_price |-> None, exit_date |-> None,
     exit_reason |-> None, pnl_pct |-> None, pnl_amt |-> None]

\* (pnl_amt / entry_price) * 100; the model's prices divide 100 * pnl_amt
PnlPct(pnl_amt, entry_price) == (pnl_amt * 100) \div entry_price

\* a close that leaves exit_date unset
close_no_exit_date(pos, price, reason, now) ==
    [pos EXCEPT !.status = "closed",
                !.exit_price = Some(price),
                !.exit_reason = Some(reason),
                !.pnl_amt = Some(price - pos.entry_price),
                !.pnl_pct = IF pos.entry_price > 0
                            THEN Some(((price - pos.entry_price) * 100)
                                      \div pos.entry_price)
                            ELSE Some(0)]

\* Position.close(price, reason) at time now: no guard on status, no result
close(pos, price, reason, now) ==
    [pos EXCEPT !.status = "closed",
                !.exit_price = Some(price),
                !.exit_date = Some(DateStr(now)),
                !.exit_reason = Some(reason),
                !.pnl_amt = Some(price - pos.entry_price),
                !.pnl_pct = IF pos.entry_price > 0
                            THEN Some(PnlPct(price - pos.entry_price, pos.entry_price))
                            ELSE Some(0)]

---------------------------------------------------------------------------
(* signatures.py: Signature *)

\* Signature.get_open_tickers
get_open_tickers(sig) ==
    {t \in DOMAIN sig.positions : sig.positions[t].status = "open"}

\* the guard of Signature.close_position: its return value
close_position_ok(sig, ticker) ==
    ticker \in DOMAIN sig.positions /\ sig.positions[ticker].status = "open"

\* Signature.close_position: the signature afterwards
close_position(sig, ticker, price, reason, now) ==
    IF close_position_ok(sig, ticker)
    THEN [sig EXCEPT !.positions[ticker] = close(@, price, reason, now)]
    ELSE sig

\* a to_dict that writes the open positions only
to_dict_open_only(sig) ==
    [signature_id |-> sig.signature_id, file_hash |-> sig.file_hash,
     created_at |-> sig.created_at, mode |-> sig.mode,
     market_status |-> sig.market_status, source_file |-> sig.source_file,
     output_file |-> sig.output_file,
     positions |-> [t \in get_open_tickers(sig) |-> sig.positions[t]]]

\* Position.to_dict / Signature.to_dict: the JSON object written
to_dict(sig) ==
    [signature_id |-> sig.signature_id, file_hash |-> sig.file_hash,
     created_at |-> sig.created_at, mode |-> sig.mode,
     market_status |-> sig.market_status, source_file |-> sig.source_file,
     output_file |-> sig.output_file,
     positions |-> [t \in DOMAIN sig.positions |-> sig.positions[t]]]

\* a from_dict that reads source_file from the wrong key
from_dict_relabel(data) ==
    [signature_id |-> data.signature_id, file_hash |-> data.file_hash,
     created_at |-> data.created_at, mode |-> data.mode,
     market_status |-> data.market_status, source_file |-> data.mode,
     positions |-> [t \in DOMAIN data.positions |-> data.positions[t]],
     output_file |-> data.output_file]

\* Signature.from_dict
from_dict(data) ==
    [signature_id |-> data.signature_id, file_hash |-> data.file_hash,
     created_at |-> data.created_at, mode |-> data.mode,
     market_status |-> data.market_status, source_file |-> data.source_file,
     positions |-> [t \in DOMAIN data.positions |-> data.positions[t]],
     output_file |-> data.output_file]

\* p.pnl_pct or 0
PnlOrZero(pos) == IF pos.pnl_pct = None THEN 0 ELSE pos.pnl_pct[1]

\* sum(p.pnl_pct or 0 for p in the positions of the tickers S)
RECURSIVE SumPnl(_, _)
SumPnl(sig, S) ==
    IF S = {} THEN 0
    ELSE LET t == CHOOSE x \in S : TRUE
         IN PnlOrZero(sig.positions[t]) + SumPnl(sig, S \ {t})

\* len(winners) / len(closed_positions) * 100; the model keeps the whole
\* part
WinRate(winners, closed_positions) == (winners * 100) \div closed_positions

\* a get_summary that reports the average P/L of the closed positions
get_summary_average(sig) ==
    LET open_positions == {t \in DOMAIN sig.positions :
                             sig.positions[t].status = "open"}
        closed_positions == {t \in DOMAIN sig.positions :
                               sig.positions[t].status = "closed"}
        winners == {t \in closed_positions : PnlOrZero(sig.positions[t]) > 0}
        losers == {t \in closed_positions : PnlOrZero(sig.positions[t]) <= 0}
    IN [total_positions |-> Cardinality(DOMAIN sig.positions),
        open_positions |-> Cardinality(open_positions),
        closed_positions |-> Cardinality(closed_positions),
        realized_pnl_pct |-> IF closed_positions # {}
                             THEN SumPnl(sig, closed_positions)
                                  \div Cardinality(closed_positions)
                             ELSE 0,
        win_count |-> Cardinality(winners),
        loss_count |-> Cardinality(losers),
        win_rate |-> IF closed_positions # {}
                     THEN WinRate(Cardinality(winners),
                                  Cardinality(closed_positions))
                     ELSE 0]

\* Signature.get_summary
get_summary(sig) ==
    LET open_positions == {t \in DOMAIN sig.positions :
                             sig.positions[t].status = "open"}
        closed_positions == {t \in DOMAIN sig.positions :
                               sig.positions[t].status = "closed"}
        winners == {t \in closed_positions : PnlOrZero(sig.positions[t]) > 0}
        losers == {t \in closed_positions : PnlOrZero(sig.positions[t]) <= 0}
    IN [total_positions |-> Cardinality(DOMAIN sig.positions),
        open_positions |-> Cardinality(open_positions),
        closed_positions |-> Cardinality(closed_positions),
        realized_pnl_pct |-> SumPnl(sig, closed_positions),
        win_count |-> Cardinality(winners),
        loss_count |-> Cardinality(losers),
        win_rate |-> IF closed_positions # {}
                     THEN WinRate(Cardinality(winners),
                                  Cardinality(closed_positions))
                     ELSE 0]

---------------------------------------------------------------------------
(* signatures.py: SignatureManager, the parts without side effects *)

EmptyDict == [x \in {} |-> None]

\* a get_by_hash that never finds
get_by_hash_miss(sigs, index, file_hash) == None

\* a get_by_hash that returns the oldest stored signature, whatever the hash
get_by_hash_oldest(sigs, index, file_hash) ==
    IF sigs # <<>> THEN Some(sigs[1]) ELSE None

\* SignatureManager.get_by_hash: Optional[Signature]
get_by_hash(sigs, index, file_hash) ==
    IF file_hash \in DOMAIN index
    THEN IF index[file_hash] \in Keys(sigs)
         THEN Some(Lookup(sigs, index[file_hash]))
         ELSE None
    ELSE None

\* a get_by_id that picks one of several prefix matches
get_by_id_first_match(sigs, signature_id) ==
    IF signature_id \in Keys(sigs)
    THEN Some(Lookup(sigs, signature_id))
    ELSE LET matches == {k \in Keys(sigs) : StartsWith(k, signature_id)}
         IN IF matches # {}
            THEN Some(Lookup(sigs, CHOOSE k \in matches : TRUE))
            ELSE None

\* SignatureManager.get_by_id: exact match, else the only key it is a prefix of
get_by_id(sigs, signature_id) ==
    IF signature_id \in Keys(sigs)
    THEN Some(Lookup(sigs, signature_id))
    ELSE LET matches == {k \in Keys(sigs) : StartsWith(k, signature_id)}
         IN IF Cardinality(matches) = 1
            THEN Some(Lookup(sigs, CHOOSE k \in matches : TRUE))
            ELSE None

\* the JSON document SignatureManager._save writes at time now
SavedDocument(sigs, now) ==
    [signatures |-> [i \in DOMAIN sigs |-> to_dict(sigs[i])],
     updated_at |-> IsoFormat(now)]

\* SignatureManager._save: the file afterwards
_save(sigs, now) == Some(SavedDocument(sigs, now))

\* SignatureManager._load: the signatures dict built from the file
LoadedSignatures(file) ==
    IF file = None THEN <<>>
    ELSE LET data == file[1].signatures
             F[i \in 0..Len(data)] ==
                 IF i = 0 THEN <<>> ELSE DictSet(F[i - 1], from_dict(data[i]))
         IN F[Len(data)]

\* SignatureManager._load: the hash index built from the file
LoadedIndex(file) ==
    IF file = None THEN EmptyDict
    ELSE LET data == file[1].signatures
             F[i \in 0..Len(data)] ==
                 IF i = 0 THEN EmptyDict
                 ELSE With(F[i - 1], data[i].file_hash, data[i].signature_id)
         IN F[Len(data)]

\* create_signature, lines 257-260 and 268-271: every ticker of the list is
\* appended and (re)labelled
RECURSIVE AddAll(_, _, _)
AddAll(sel, list, category) ==
    IF list = <<>> THEN sel
    ELSE AddAll([buy_tickers |-> Append(sel.buy_tickers, Head(list)),
                 ticker_categories |->
                     With(sel.ticker_categories, Head(list), category)],
                Tail(list), category)

\* create_signature, lines 262-266: a ticker that has a category is skipped
RECURSIVE AddNew(_, _, _)
AddNew(sel, list, category) ==
    IF list = <<>> THEN sel
    ELSE AddNew(IF Head(list) \in DOMAIN sel.ticker_categories
                THEN sel
                ELSE [buy_tickers |-> Append(sel.buy_tickers, Head(list)),
                      ticker_categories |->
                          With(sel.ticker_categories, Head(list), category)],
                Tail(list), category)

\* a selection that takes the strong buys in mode early as well
SelectTickers_early_with_strong(mode, parsed_stocks) ==
    LET s0 == [buy_tickers |-> <<>>, ticker_categories |-> EmptyDict]
        s1 == IF mode \in {"strong", "all", "early"}
              THEN AddAll(s0, parsed_stocks.strong_buys, "strong_buy") ELSE s0
        s2 == IF mode \in {"early", "all"}
              THEN AddNew(s1, parsed_stocks.early_buys, "early_buy") ELSE s1
        s3 == IF mode = "dividend"
              THEN AddAll(s2, parsed_stocks.dividends, "dividend") ELSE s2
    IN s3

\* create_signature, lines 253-271: buy_tickers and ticker_categories by mode
SelectTickers(mode, parsed_stocks) ==
    LET s0 == [buy_tickers |-> <<>>, ticker_categories |-> EmptyDict]
        s1 == IF mode \in {"strong", "all"}
              THEN AddAll(s0, parsed_stocks.strong_buys, "strong_buy") ELSE s0
        s2 == IF mode \in {"early", "all"}
              THEN AddNew(s1, parsed_stocks.early_buys, "early_buy") ELSE s1
        s3 == IF mode = "dividend"
              THEN AddAll(s2, parsed_stocks.dividends, "dividend") ELSE s2
    IN s3

\* PriceFetcher.get_entry_prices(tickers) read at time t, when the feed has
\* the prices quotes (ticker -> price) : ticker -> {price, price_type, date};
\* the date of the last bar is the day of the fetch
get_entry_prices(tickers, quotes, t) ==
    IF tickers = <<>> THEN EmptyDict
    ELSE [k \in Range(tickers) \cap DOMAIN quotes |->
            [price |-> quotes[k],
             price_type |-> get_market_status(t).price_type,
             date |-> DateStr(t)]]

\* PriceFetcher.get_current_prices(tickers): ticker -> price
get_current_prices(tickers) ==
    [k \in tickers \cap DOMAIN CurrentQuotes |-> CurrentQuotes[k]]

\* a materialisation that skips the tickers priced at 0
MakePositions_skip_zero(buy_tickers, ticker_categories, price_data) ==
    [k \in {x \in Range(buy_tickers) \cap DOMAIN price_data :
                price_data[x].price # 0} |->
        [ticker |-> k, category |-> ticker_categories[k],
         entry_price |-> price_data[k].price,
         entry_date |-> price_data[k].date,
         entry_type |-> price_data[k].price_type,
         status |-> "open", exit_price |-> None, exit_date |-> None,
         exit_reason |-> None, pnl_pct |-> None, pnl_amt |-> None]]

\* create_signature, lines 277-288
MakePositions(buy_tickers, ticker_categories, price_data) ==
    [k \in Range(buy_tickers) \cap DOMAIN price_data |->
        NewPosition(k, ticker_categories[k], price_data[k].price,
                    price_data[k].date, price_data[k].price_type)]

\* an artifact name that is the same for all the signatures of a day
OutputFile_of_the_day(now, signature_id) == <<DateStr(now), <<>>>>

\* str(output_file.relative_to(RUNS_DIR)): "<YYYYMMDD>/<signature_id>.txt"
OutputFile(now, signature_id) == <<DateStr(now), signature_id>>

\* SignatureManager.list_all(mode, limit): newest first; the sort is stable
list_all(sigs, mode, limit) ==
    LET results == IF mode # None /\ mode # Some("all")
                   THEN SelectSeq(sigs, LAMBDA x : x.mode = mode[1])
                   ELSE sigs
        \* position of results[i] after results.sort(key=created_at, reverse=True)
        rank(i) == 1 + Cardinality({j \in DOMAIN results :
                        \/ results[j].created_at > results[i].created_at
                        \/ /\ results[j].created_at = results[i].created_at
                           /\ j < i})
        sorted == [r \in DOMAIN results |->
                     results[CHOOSE i \in DOMAIN results : rank(i) = r]]
    IN SubSeq(sorted, 1, IF limit < Len(sorted) THEN limit ELSE Len(sorted))

\* SignatureManager.get_all_open_positions, for one ticker: the
\* signature_ids of the signatures that hold it open, in dict order
OpenIn(sigs, ticker) ==
    LET F[i \in 0..Len(sigs)] ==
            IF i = 0 THEN <<>>
            ELSE IF close_position_ok(sigs[i], ticker)
                 THEN Append(F[i - 1], sigs[i].signature_id)
                 ELSE F[i - 1]
    IN F[Len(sigs)]

\* the keys of SignatureManager.get_all_open_positions()
OpenTickers(sigs) == UNION {get_open_tickers(sigs[i]) : i \in DOMAIN sigs}

\* the sum of the values of a function with a finite domain
RECURSIVE SumOf(_)
SumOf(f) ==
    IF DOMAIN f = {} THEN 0
    ELSE LET t == CHOOSE x \in DOMAIN f : TRUE
         IN f[t] + SumOf([x \in DOMAIN f \ {t} |-> f[x]])

\* current_prices.get(ticker, pos.entry_price)
CurrentOrEntry(pos, current_prices) ==
    IF pos.ticker \in DOMAIN current_prices
    THEN current_prices[pos.ticker] ELSE pos.entry_price

\* the unrealized figures a view shows for a signature: entered is the set
\* of tickers whose P/L went into the total (and into the count the average
\* divides by), current the price each was valued at; the division by an
\* entry price of 0 is the view's error
UnrealizedView(view, sig, entered, current) ==
    [view |-> view, signature_id |-> sig.signature_id, entered |-> entered,
     total |-> IF \E t \in entered : sig.positions[t].entry_price = 0 THEN 0
               ELSE SumOf([t \in entered |->
                             PnlPct(current[t] - sig.positions[t].entry_price,
                                    sig.positions[t].entry_price)]),
     error |-> IF \E t \in entered : sig.positions[t].entry_price = 0
               THEN Some("ZeroDivisionError") ELSE None]

\* BacktestCLI.cmd_signatures, lines 153-160: the open positions whose
\* ticker is in current_prices
signatures_unrealized(sig, current_prices) ==
    UnrealizedView("signatures", sig,
                   get_open_tickers(sig) \cap DOMAIN current_prices,
                   current_prices)

\* BacktestCLI.cmd_report, lines 236-250: every open position, valued at
\* its entry price when current_prices has no entry for it, and the average
\* over len(open_positions)
report_unrealized(sig, current_prices) ==
    UnrealizedView("report", sig, get_open_tickers(sig),
                   [t \in get_open_tickers(sig) |->
                      CurrentOrEntry(sig.positions[t], current_prices)])

\* generate_signature_report_html, lines 32-62: the open positions with a
\* positive entry price and a positive current price, the current price
\* being the entry price when current_prices has no entry for the ticker
html_report_unrealized(sig, current_prices) ==
    UnrealizedView("html_report", sig,
                   {t \in get_open_tickers(sig) :
                      /\ sig.positions[t].entry_price > 0
                      /\ CurrentOrEntry(sig.positions[t], current_prices) > 0},
                   [t \in get_open_tickers(sig) |->
                      CurrentOrEntry(sig.positions[t], current_prices)])

\* generate_signatures_list_html, lines 501-507: the open positions whose
\* ticker is in current_prices, with a positive entry and current price
html_index_unrealized(sig, current_prices) ==
    UnrealizedView("html_index", sig,
                   {t \in get_open_tickers(sig) \cap DOMAIN current_prices :
                      /\ sig.positions[t].entry_price > 0
                      /\ current_prices[t] > 0},
                   current_prices)

\* the first error among the views, if any
FirstError(views) ==
    IF \E i \in DOMAIN views : views[i].error # None
    THEN views[CHOOSE i \in DOMAIN views :
                 /\ views[i].error # None
                 /\ \A k \in 1..(i - 1) : views[k].error = None].error
    ELSE None

\* a get_all_open_positions that lists the closed positions too
get_all_open_positions_any_status(sigs) ==
    LET held(t) == SelectSeq(sigs, LAMBDA s : t \in DOMAIN s.positions)
    IN [t \in UNION {DOMAIN sigs[i].positions : i \in DOMAIN sigs} |->
          [i \in DOMAIN held(t) |->
             <<held(t)[i].signature_id, held(t)[i].positions[t]>>]]

\* SignatureManager.get_all_open_positions: ticker -> the pairs
\* (signature_id, position), in the order of self.signatures
get_all_open_positions(sigs) ==
    [t \in OpenTickers(sigs) |->
       [i \in DOMAIN OpenIn(sigs, t) |->
          <<OpenIn(sigs, t)[i],
            Lookup(sigs, OpenIn(sigs, t)[i]).positions[t]>>]]

\* SignatureManager.get_output_content(signature_id), files being what
\* RUNS_DIR holds; a signature the program created has an output_file
get_output_content(sigs, files, signature_id) ==
    LET found == get_by_id(sigs, signature_id)
    IN IF found = None THEN None
       ELSE IF found[1].output_file \in DOMAIN files
            THEN Some(files[found[1].output_file])
            ELSE None

---------------------------------------------------------------------------
(* The initial state: a fresh data directory, SignatureManager() on it *)

Init ==
    /\ signatures = <<>>
    /\ hash_index = EmptyDict
    /\ disk = None
    /\ runs = EmptyDict
    /\ clock = ClockStart
    /\ ret = [op |-> "init"]

\* time passes between two operations
Tick ==
    /\ clock < ClockStart + MaxTicks
    /\ clock' = clock + 1
    /\ UNCHANGED <<signatures, hash_index, disk, runs, ret>>

\* SignatureManager.create_signature(file_content, source_file, mode,
\* parsed_stocks); quotes is what the price feed holds, dt the time that
\* passes between reading the clock and the fetcher's reading of it
create_signature(file_content, source_file, mode, parsed_stocks, quotes, dt) ==
    LET file_hash == compute_file_hash(file_content, mode)
        existing == get_by_hash(signatures, hash_index, file_hash)
        now == clock
        market == get_market_status(now)
        signature_id == SignatureId(now, file_hash)
        sel == SelectTickers(mode, parsed_stocks)
        price_data == get_entry_prices(sel.buy_tickers, quotes, now + dt)
        positions == MakePositions(sel.buy_tickers, sel.ticker_categories, price_data)
        output_file == OutputFile(now, signature_id)
        sig == [signature_id |-> signature_id, file_hash |-> file_hash,
                created_at |-> IsoFormat(now), mode |-> mode,
                market_status |-> market.description,
                source_file |-> source_file, positions |-> positions,
                output_file |-> output_file]
        stored == DictSet(signatures, sig)
    IN IF existing # None
       THEN /\ ret' = [op |-> "create_signature", is_new |-> FALSE,
                       signature_id |-> existing[1].signature_id,
                       entry_requests |-> <<>>]
            /\ UNCHANGED <<signatures, hash_index, disk, runs, clock>>
       ELSE /\ Len(signatures) < MaxSigs
            /\ now + dt <= ClockStart + MaxTicks
            /\ runs' = With(runs, output_file, file_content)
            /\ signatures' = stored
            /\ hash_index' = With(hash_index, file_hash, signature_id)
            /\ clock' = now + dt
            /\ disk' = _save(stored, now + dt)
            /\ ret' = [op |-> "create_signature", is_new |-> TRUE,
                       signature_id |-> signature_id,
                       entry_requests |-> <<sel.buy_tickers>>]

\* BacktestCLI.cmd_process(filepath, mode), the file being one of files
cmd_process(files, filepath, mode, quotes) ==
    \E f \in files :
        /\ f.name = filepath
        /\ create_signature(f.content, f.name, mode, parse_content(f.content),
                            quotes, 0)

\* SignatureManager.update_signature(signature): store it and save
update_signature(sigs, signature) == DictSet(sigs, signature)

\* the closing loops of cmd_check_sells (lines 328-348) and cmd_close (lines
\* 475-488) over items = <<ticker, signature_id>> pairs: close, store and
\* save, then compute the reported P/L from the entry price, which raises
\* ZeroDivisionError on an entry price of 0 and ends the command.  closed
\* counts the positions the loop closed and saved.
\* guarded is TRUE when a failed close_position skips the item
\* (cmd_check_sells) and FALSE when the item is stored, saved and reported
\* whatever close_position returned (cmd_close)
RECURSIVE CloseLoop(_, _, _, _, _, _)
CloseLoop(acc, items, price, reason, guarded, now) ==
    IF items = <<>> \/ acc.error # None THEN acc
    ELSE LET ticker == Head(items)[1]
             found == get_by_id(acc.sigs, Head(items)[2])
             sig == found[1]
             ok == found # None /\ close_position_ok(sig, ticker)
             entry == sig.positions[ticker].entry_price
             after == [sigs |-> update_signature(acc.sigs,
                                    close_position(sig, ticker, price[ticker],
                                                   reason, now)),
                       closed |-> acc.closed + 1,
                       saves |-> acc.saves + 1,
                       error |-> IF entry = 0 THEN Some("ZeroDivisionError")
                                 ELSE None]
         IN CloseLoop(IF guarded /\ ~ok THEN acc ELSE after,
                      Tail(items), price, reason, guarded, now)

\* the pairs <<ticker, signature_id>> cmd_check_sells visits: for each sold
\* ticker with an exit price, the signatures that held it open when the
\* command started
RECURSIVE SellItems(_, _, _)
SellItems(sigs, sells, exit_prices) ==
    IF sells = <<>> THEN <<>>
    ELSE (IF Head(sells) \in DOMAIN exit_prices
          THEN [i \in DOMAIN OpenIn(sigs, Head(sells)) |->
                    <<Head(sells), OpenIn(sigs, Head(sells))[i]>>]
          ELSE <<>>)
         \o SellItems(sigs, Tail(sells), exit_prices)

\* orders in which a set can be iterated
Orders(S) == {q \in [1..Cardinality(S) -> S] : Range(q) = S}

\* a cmd_check_sells that saves the collection as it was before the closes
cmd_check_sells_stale_save(sells) ==
    LET exit_prices == get_current_prices(Range(sells))
        start == [sigs |-> signatures, closed |-> 0, saves |-> 0, error |-> None]
        done == CloseLoop(start, SellItems(signatures, sells, exit_prices),
                          exit_prices, "sell_signal", TRUE, clock)
    IN /\ OpenTickers(signatures) # {}
       /\ Range(sells) \subseteq OpenTickers(signatures)
       /\ signatures' = done.sigs
       /\ disk' = IF done.saves > 0 THEN _save(signatures, clock) ELSE disk
       /\ ret' = [op |-> "cmd_check_sells",
                  success |-> done.error = None, closed |-> done.closed,
                  error |-> done.error]
       /\ UNCHANGED <<hash_index, runs, clock>>

\* BacktestCLI.cmd_check_sells: sells is the set the scanner flags, in the
\* order the loop visits it
cmd_check_sells(sells) ==
    LET exit_prices == get_current_prices(Range(sells))
        start == [sigs |-> signatures, closed |-> 0, saves |-> 0, error |-> None]
        done == CloseLoop(start, SellItems(signatures, sells, exit_prices),
                          exit_prices, "sell_signal", TRUE, clock)
    IN /\ OpenTickers(signatures) # {}
       /\ Range(sells) \subseteq OpenTickers(signatures)
       /\ signatures' = done.sigs
       /\ disk' = IF done.saves > 0 THEN _save(done.sigs, clock) ELSE disk
       /\ ret' = [op |-> "cmd_check_sells",
                  success |-> done.error = None, closed |-> done.closed,
                  error |-> done.error]
       /\ UNCHANGED <<hash_index, runs, clock>>

\* BacktestCLI.cmd_check_sells with no open position: nothing to check
cmd_check_sells_idle ==
    /\ OpenTickers(signatures) = {}
    /\ ret' = [op |-> "cmd_check_sells",
               success |-> TRUE, closed |-> 0, error |-> None]
    /\ UNCHANGED <<signatures, hash_index, disk, runs, clock>>

\* a cmd_close that closes at a price of 0 when no price was given and none
\* can be fetched
cmd_close_without_price(ticker, signature_id, price) ==
    LET quote == IF ticker \in DOMAIN get_current_prices({ticker})
                 THEN Some(get_current_prices({ticker})[ticker]) ELSE Some(0)
        found == IF signature_id # None
                 THEN get_by_id(signatures, signature_id[1]) ELSE None
        listed == list_all(signatures, None, 100)
        targets ==
            IF signature_id # None
            THEN IF found # None /\ close_position_ok(found[1], ticker)
                 THEN <<found[1].signature_id>> ELSE <<>>
            ELSE LET F[i \in 0..Len(listed)] ==
                         IF i = 0 THEN <<>>
                         ELSE IF close_position_ok(listed[i], ticker)
                              THEN Append(F[i - 1], listed[i].signature_id)
                              ELSE F[i - 1]
                 IN F[Len(listed)]
        exit == IF price # None THEN price ELSE quote
        failure ==
            IF signature_id # None /\ found = None THEN Some("Signature not found")
            ELSE IF targets = <<>> THEN Some("No open position")
            ELSE None
        start == [sigs |-> signatures, closed |-> 0, saves |-> 0, error |-> None]
        done == CloseLoop(start, [i \in DOMAIN targets |-> <<ticker, targets[i]>>],
                          [t \in {ticker} |-> exit[1]], "manual", FALSE, clock)
    IN IF failure # None
       THEN /\ ret' = [op |-> "cmd_close",
                       success |-> FALSE, closed |-> 0, error |-> failure]
            /\ UNCHANGED <<signatures, hash_index, disk, runs, clock>>
       ELSE /\ signatures' = done.sigs
            /\ disk' = _save(done.sigs, clock)
            /\ ret' = [op |-> "cmd_close",
                       success |-> done.error = None, closed |-> done.closed,
                       error |-> done.error]
            /\ UNCHANGED <<hash_index, runs, clock>>

\* BacktestCLI.cmd_close(ticker, signature_id, price): signature_id and
\* price are Optional
cmd_close(ticker, signature_id, price) ==
    LET quote == IF ticker \in DOMAIN get_current_prices({ticker})
                 THEN Some(get_current_prices({ticker})[ticker]) ELSE None
        found == IF signature_id # None
                 THEN get_by_id(signatures, signature_id[1]) ELSE None
        Targets(listed) ==
            IF signature_id # None
            THEN IF found # None /\ close_position_ok(found[1], ticker)
                 THEN <<found[1].signature_id>> ELSE <<>>
            ELSE LET open_in == SelectSeq(listed,
                                   LAMBDA sig : close_position_ok(sig, ticker))
                 IN [i \in DOMAIN open_in |-> open_in[i].signature_id]
        exit == IF price # None THEN price ELSE quote
        start == [sigs |-> signatures, closed |-> 0, saves |-> 0, error |-> None]
    IN \E listed \in {list_all(signatures, None, 100)} :
       \E targets \in {Targets(listed)} :
         LET failure ==
                 IF signature_id # None /\ found = None
                 THEN Some("Signature not found")
                 ELSE IF targets = <<>> THEN Some("No open position")
                 ELSE IF exit = None THEN Some("Could not fetch price")
                 ELSE None
         IN IF failure # None
            THEN /\ ret' = [op |-> "cmd_close",
                            success |-> FALSE, closed |-> 0, error |-> failure]
                 /\ UNCHANGED <<signatures, hash_index, disk, runs, clock>>
            ELSE \E done \in {CloseLoop(start,
                                 [i \in DOMAIN targets |-> <<ticker, targets[i]>>],
                                 [t \in {ticker} |-> exit[1]], "manual", FALSE,
                                 clock)} :
                 /\ signatures' = done.sigs
                 /\ disk' = _save(done.sigs, clock)
                 /\ ret' = [op |-> "cmd_close",
                            success |-> done.error = None,
                            closed |-> done.closed, error |-> done.error]
                 /\ UNCHANGED <<hash_index, runs, clock>>

\* a delete_signature that leaves the hash index alone
delete_signature_keeps_index(signature_id) ==
    LET found == get_by_id(signatures, signature_id)
        sig == found[1]
        left == DictDel(signatures, sig.signature_id)
    IN IF found = None
       THEN /\ ret' = [op |-> "delete_signature",
                       result |-> FALSE]
            /\ UNCHANGED <<signatures, hash_index, disk, runs, clock>>
       ELSE /\ runs' = Without(runs, sig.output_file)
            /\ signatures' = left
            /\ disk' = _save(left, clock)
            /\ ret' = [op |-> "delete_signature",
                       result |-> TRUE]
            /\ UNCHANGED <<hash_index, clock>>

\* a delete_signature that leaves the artifact file in place
delete_signature_keeps_artifact(signature_id) ==
    LET found == get_by_id(signatures, signature_id)
        sig == found[1]
        left == DictDel(signatures, sig.signature_id)
    IN IF found = None
       THEN /\ ret' = [op |-> "delete_signature",
                       result |-> FALSE]
            /\ UNCHANGED <<signatures, hash_index, disk, runs, clock>>
       ELSE /\ hash_index' = Without(hash_index, sig.file_hash)
            /\ signatures' = left
            /\ disk' = _save(left, clock)
            /\ ret' = [op |-> "delete_signature",
                       result |-> TRUE]
            /\ UNCHANGED <<runs, clock>>

\* SignatureManager.delete_signature(signature_id)
delete_signature(signature_id) ==
    LET found == get_by_id(signatures, signature_id)
        sig == found[1]
        left == DictDel(signatures, sig.signature_id)
    IN IF found = None
       THEN /\ ret' = [op |-> "delete_signature",
                       result |-> FALSE]
            /\ UNCHANGED <<signatures, hash_index, disk, runs, clock>>
       ELSE /\ runs' = Without(runs, sig.output_file)
            /\ hash_index' = Without(hash_index, sig.file_hash)
            /\ signatures' = left
            /\ disk' = _save(left, clock)
            /\ ret' = [op |-> "delete_signature",
                       result |-> TRUE]
            /\ UNCHANGED clock

\* a new process: SignatureManager() loads the file
_load ==
    /\ signatures' = LoadedSignatures(disk)
    /\ hash_index' = LoadedIndex(disk)
    /\ ret' = [op |-> "_load"]
    /\ UNCHANGED <<disk, runs, clock>>

\* what a user may type for a signature: a full identity, or the date part
\* that every identity of the day starts with (no match on an empty store,
\* ambiguous on a store of two)
SignatureArgs == Keys(signatures) \cup {TwoDigits(DateStr(clock))}

\* Position.close(price, reason) called on a position of a stored
\* signature: the object is changed in place, nothing is saved, and the call
\* returns None
Position_close(signature_id, ticker, price, reason) ==
    LET found == get_by_id(signatures, signature_id)
        sig == found[1]
    IN /\ found # None
       /\ ticker \in DOMAIN sig.positions
       /\ signatures' = DictSet(signatures,
               [sig EXCEPT !.positions[ticker] = close(@, price, reason, clock)])
       /\ ret' = [op |-> "Position.close", result |-> None]
       /\ UNCHANGED <<hash_index, disk, runs, clock>>

\* Signature.close_position(ticker, price, reason) called on a stored
\* signature: changed in place when the guard holds, nothing is saved, and
\* the call returns the guard
Signature_close_position(signature_id, ticker, price, reason) ==
    LET found == get_by_id(signatures, signature_id)
        sig == found[1]
    IN /\ found # None
       /\ signatures' = DictSet(signatures,
               close_position(sig, ticker, price, reason, clock))
       /\ ret' = [op |-> "Signature.close_position",
                  result |-> Some(close_position_ok(sig, ticker))]
       /\ UNCHANGED <<hash_index, disk, runs, clock>>

\* what SIGNATURES_FILE holds when _save (lines 182-189) stops after
\* open(SIGNATURES_FILE, 'w') has emptied the file and json.dump has written
\* k of the signatures: the text ends before 'updated_at' and the closing
\* brace
TornDocument(sigs, k) ==
    [signatures |-> [i \in 1..k |-> to_dict(sigs[i])]]

\* json.load accepts the file: it holds a whole document
Readable(file) ==
    IF file = None THEN TRUE ELSE "updated_at" \in DOMAIN file[1]

\* SignatureManager.update_signature(signature) on a stored signature, the
\* process dying (or the write failing) inside _save after k signatures:
\* the file is left as it is and the manager is gone
update_signature_interrupted(signature_id, k) ==
    /\ Readable(disk)
    /\ disk # None
    /\ signature_id \in Keys(signatures)
    /\ k \in 0..Len(signatures)
    /\ disk' = Some(TornDocument(update_signature(signatures,
                                    Lookup(signatures, signature_id)), k))
    /\ signatures' = <<>>
    /\ hash_index' = EmptyDict
    /\ ret' = [op |-> "update_signature", error |-> Some("interrupted")]
    /\ UNCHANGED <<runs, clock>>

\* a new process on a file that json.load rejects: _load (lines 173-175)
\* catches nothing, SignatureManager() raises and no command runs
_load_unreadable ==
    /\ ~Readable(disk)
    /\ signatures' = <<>>
    /\ hash_index' = EmptyDict
    /\ ret' = [op |-> "_load", error |-> Some("JSONDecodeError")]
    /\ UNCHANGED <<disk, runs, clock>>

\* Signature.get_summary() called on a stored signature
get_summary_call(signature_id) ==
    /\ signature_id \in Keys(signatures)
    /\ ret' = [op |-> "get_summary",
               summary |-> get_summary(Lookup(signatures, signature_id))]
    /\ UNCHANGED <<signatures, hash_index, disk, runs, clock>>

\* BacktestCLI.cmd_signatures(mode, limit): one row per listed signature
cmd_signatures(mode, limit) ==
    LET sigs == list_all(signatures, mode, limit)
        all_open_tickers == OpenTickers(sigs)
        current_prices == get_current_prices(all_open_tickers)
        rows == [i \in DOMAIN sigs |->
                   signatures_unrealized(sigs[i], current_prices)]
    IN /\ ret' = [op |-> "cmd_signatures", views |-> rows,
                  error |-> FirstError(rows)]
       /\ UNCHANGED <<signatures, hash_index, disk, runs, clock>>

\* BacktestCLI.cmd_report(signature_id)
cmd_report(signature_id) ==
    LET found == get_by_id(signatures, signature_id)
        sig == found[1]
        rows == IF found = None THEN <<>>
                ELSE <<report_unrealized(sig,
                           get_current_prices(get_open_tickers(sig)))>>
    IN /\ ret' = [op |-> "cmd_report", views |-> rows,
                  error |-> IF found = None THEN Some("Signature not found")
                            ELSE FirstError(rows)]
       /\ UNCHANGED <<signatures, hash_index, disk, runs, clock>>

\* BacktestCLI.cmd_html(signature_id): one report, or the index and a
\* report for each listed signature; the pages go to DATA_DIR / reports,
\* which no other operation reads
cmd_html(signature_id) ==
    LET found == IF signature_id # None
                 THEN get_by_id(signatures, signature_id[1]) ELSE None
        sigs == list_all(signatures, None, 100)
        current_prices == get_current_prices(OpenTickers(sigs))
        rows == IF signature_id # None
                THEN IF found = None THEN <<>>
                     ELSE <<html_report_unrealized(found[1],
                              get_current_prices(get_open_tickers(found[1])))>>
                ELSE [i \in DOMAIN sigs |->
                        html_index_unrealized(sigs[i], current_prices)]
                     \o [i \in DOMAIN sigs |->
                           html_report_unrealized(sigs[i], current_prices)]
    IN /\ ret' = [op |-> "cmd_html", views |-> rows,
                  error |-> IF signature_id # None /\ found = None
                            THEN Some("Signature not found")
                            ELSE IF signature_id = None /\ sigs = <<>>
                            THEN Some("No signatures found")
                            ELSE None]
       /\ UNCHANGED <<signatures, hash_index, disk, runs, clock>>

\* SignatureManager.list_all(mode, limit) called: the identities returned,
\* in the order returned
list_all_call(mode, limit) ==
    LET results == list_all(signatures, mode, limit)
    IN /\ ret' = [op |-> "list_all",
                  result |-> [i \in DOMAIN results |-> results[i].signature_id]]
       /\ UNCHANGED <<signatures, hash_index, disk, runs, clock>>

\* SignatureManager.get_all_open_positions() called
get_all_open_positions_call ==
    /\ ret' = [op |-> "get_all_open_positions",
               result |-> get_all_open_positions(signatures)]
    /\ UNCHANGED <<signatures, hash_index, disk, runs, clock>>

\* get_market_status() read at the present instant
get_market_status_call ==
    /\ ret' = [op |-> "get_market_status", now |-> clock,
               status |-> get_market_status(clock)]
    /\ UNCHANGED <<signatures, hash_index, disk, runs, clock>>

---------------------------------------------------------------------------
(* The specifications *)

Process ==
    \E j \in Jobs, q \in EntryFeeds : cmd_process(Files, j[1], j[2], q)

CheckSells ==
    \/ \E S \in SUBSET OpenTickers(signatures) : \E sells \in Orders(S) :
         cmd_check_sells(sells)
    \/ cmd_check_sells_idle

Close ==
    \E t \in CloseTickers, id \in {None} \cup {Some(a) : a \in SignatureArgs},
       price \in {None} \cup {Some(p) : p \in ManualPrices} :
        cmd_close(t, id, price)

Delete == \E id \in SignatureArgs : delete_signature(id)

Next ==
    \/ Tick
    \/ Process
    \/ CheckSells
    \/ Close
    \/ Delete
    \/ _load

\* the commands of bt.py on the files whose fingerprints differ in the
\* digits that go into the identity
Spec == Init /\ [][Next]_vars

ProcessColliding ==
    \E j \in CollidingJobs, q \in EntryFeeds :
        cmd_process(Files \cup CollidingFiles, j[1], j[2], q)

NextCollide ==
    \/ Tick
    \/ ProcessColliding
    \/ CheckSells
    \/ Close
    \/ Delete
    \/ _load

\* the same commands on files of which two have fingerprints that agree in
\* the digits that go into the identity
SpecCollide == Init /\ [][NextCollide]_vars

NextIngest ==
    \/ Tick
    \/ Process
    \/ Delete
    \/ _load

\* ingestion alone: files are processed and signatures deleted, no position
\* is closed
SpecIngest == Init /\ [][NextIngest]_vars

ProcessLive == Readable(disk) /\ Process

DeleteLive == Readable(disk) /\ Delete

LoadLive == Readable(disk) /\ _load

SaveInterrupted ==
    \E id \in Keys(signatures), k \in 0..MaxSigs :
        update_signature_interrupted(id, k)

NextCrash ==
    \/ Tick
    \/ ProcessLive
    \/ DeleteLive
    \/ LoadLive
    \/ SaveInterrupted
    \/ _load_unreadable

\* ingestion with saves that may be interrupted; a command needs a manager,
\* and a manager needs a file that loads
SpecCrash == Init /\ [][NextCrash]_vars

\* an identity that is never stored, and the empty text, which every
\* identity starts with
UnknownArgs == {<<"9", "9">>, <<>>}

DeleteAny ==
    \E id \in SignatureArgs \cup UnknownArgs : delete_signature(id)

NextLookup ==
    \/ Tick
    \/ Process
    \/ DeleteAny
    \/ _load

\* ingestion and deletion, the signature given in every way: in full, by a
\* prefix, by a text that matches nothing
SpecLookup == Init /\ [][NextLookup]_vars

\* identities of any shape, as a ledger file may hold them: one is a prefix
\* of two others
IdTexts == {<<"a">>, <<"a", "b">>, <<"a", "c">>, <<"b">>}
\* the texts looked up: the identities, the empty text, a text longer than
\* an identity, a text that matches nothing
LookupTexts == IdTexts \cup {<<>>, <<"a", "b", "c">>, <<"c">>}
\* the stores of the lookup check hold at most MaxStore signatures
MaxStore == 3

\* Signature(...) with the identity id and no positions
SignatureWithId(id) ==
    [signature_id |-> id, file_hash |-> HashTag \o id,
     created_at |-> IsoFormat(ClockStart), mode |-> "strong",
     market_status |-> get_market_status(ClockStart).description,
     source_file |-> "a.html", positions |-> EmptyDict,
     output_file |-> OutputFile(ClockStart, id)]

\* a manager that holds signatures of the identities IdTexts, in any order
InitLookup ==
    /\ signatures \in
         {[i \in DOMAIN q |-> SignatureWithId(q[i])] :
            q \in {x \in UNION {[1..n -> IdTexts] : n \in 0..MaxStore} :
                     \A i \in DOMAIN x, k \in DOMAIN x : x[i] = x[k] => i = k}}
    /\ hash_index = [h \in {signatures[i].file_hash : i \in DOMAIN signatures}
                       |-> CHOOSE id \in Keys(signatures) : h = HashTag \o id]
    /\ disk = None
    /\ runs = EmptyDict
    /\ clock = ClockStart
    /\ ret = [op |-> "init"]

\* SignatureManager.get_by_id(signature_id) called: the identity of the
\* signature returned, or None
get_by_id_call(signature_id) ==
    LET found == get_by_id(signatures, signature_id)
    IN /\ ret' = [op |-> "get_by_id",
                  result |-> IF found = None THEN None
                             ELSE Some(found[1].signature_id)]
       /\ UNCHANGED <<signatures, hash_index, disk, runs, clock>>

GetById == \E s \in LookupTexts : get_by_id_call(s)

NextGetById ==
    \/ GetById
    \/ DeleteAny

\* get_by_id on stores of identities of any shape
SpecGetById == InitLookup /\ [][NextGetById]_vars

ProcessAPI ==
    \E j \in APIJobs, q \in EntryFeeds : cmd_process(Files, j[1], j[2], q)

PositionClose ==
    \E id \in Keys(signatures), t \in Tickers :
        Position_close(id, t, CurrentQuotes["AA"], "sell_signal")

SignatureClosePosition ==
    \E id \in Keys(signatures), t \in Tickers, p \in ManualPrices :
        Signature_close_position(id, t, p, "manual")

NextAPI ==
    \/ Tick
    \/ ProcessAPI
    \/ PositionClose
    \/ SignatureClosePosition
    \/ Delete

\* the library used directly: Position.close and Signature.close_position
\* called on the stored signatures
SpecAPI == Init /\ [][NextAPI]_vars

NextClose ==
    \/ Process
    \/ Close
    \/ SignatureClosePosition

\* the manual close of bt.py next to Signature.close_position called on the
\* stored signatures
SpecClose == Init /\ [][NextClose]_vars

\* the files and modes of the read-only views: one ticker, two tickers, and
\* a ticker that has no current quote
ViewJobs == {<<"a.html", "strong">>, <<"a.html", "early">>,
             <<"a.html", "dividend">>}

ProcessView ==
    \E j \in ViewJobs, q \in EntryFeeds : cmd_process(Files, j[1], j[2], q)

GetSummary == \E id \in Keys(signatures) : get_summary_call(id)

NextSummary ==
    \/ ProcessView
    \/ CheckSells
    \/ Close
    \/ GetSummary
    \/ get_all_open_positions_call

\* the ledger with Signature.get_summary and
\* SignatureManager.get_all_open_positions read between the commands
SpecSummary == Init /\ [][NextSummary]_vars

SignaturesView == cmd_signatures(None, 20)

ReportView == \E id \in SignatureArgs : cmd_report(id)

HtmlView ==
    \E id \in {None} \cup {Some(a) : a \in Keys(signatures)} : cmd_html(id)

NextReport ==
    \/ ProcessView
    \/ CheckSells
    \/ SignaturesView
    \/ ReportView
    \/ HtmlView

\* the ledger with the views that value open positions at current prices
SpecReport == Init /\ [][NextReport]_vars

\* the modes stored for the listing: one category, two categories, and the
\* mode named all
ListJobs == {<<"a.html", "strong">>, <<"a.html", "early">>,
             <<"a.html", "all">>}

\* the limits listed with: none, fewer than stored, as many, the default
Limits == {0, 1, MaxSigs, 50}

ProcessList ==
    \E j \in ListJobs, q \in EntryFeeds : cmd_process(Files, j[1], j[2], q)

ListAll ==
    \E mode \in {None} \cup {Some(m) : m \in Modes}, limit \in Limits :
        list_all_call(mode, limit)

NextList ==
    \/ Tick
    \/ ProcessList
    \/ Delete
    \/ ListAll

\* the ledger with SignatureManager.list_all read between the commands
SpecList == Init /\ [][NextList]_vars

\* the largest store of the manual-close check: one signature more than
\* cmd_close lists
MaxStored == 101

\* the store sizes of the manual-close check
StoreSizes == {1, 2, 3, MaxStored}

\* the i-th of n signatures created one second apart before ClockStart,
\* each from its own content, each holding AA and BB open
StoredSignature(i, n) ==
    LET created == ClockStart - 1 - (n - i)
        file_hash == HashTag \o <<Digit(i \div 100)>> \o TwoDigits(i)
        signature_id == SignatureId(created, file_hash)
        market == get_market_status(created)
    IN [signature_id |-> signature_id, file_hash |-> file_hash,
        created_at |-> IsoFormat(created), mode |-> "early",
        market_status |-> market.description, source_file |-> "a.html",
        positions |->
          [t \in {"AA", "BB"} |->
             NewPosition(t, IF t = "AA" THEN "strong_buy" ELSE "early_buy",
                         IF t = "AA" THEN 2 ELSE 4,
                         market.reference_date, market.price_type)],
        output_file |-> OutputFile(created, signature_id)]

\* a manager on a data directory that holds n signatures
InitStored ==
    /\ signatures \in {[i \in 1..n |-> StoredSignature(i, n)] : n \in StoreSizes}
    /\ hash_index = [h \in {signatures[i].file_hash : i \in DOMAIN signatures}
                       |-> signatures[CHOOSE i \in DOMAIN signatures :
                               signatures[i].file_hash = h].signature_id]
    /\ disk = _save(signatures, ClockStart - 1)
    /\ runs = [f \in {signatures[i].output_file : i \in DOMAIN signatures} |-> "x"]
    /\ clock = ClockStart
    /\ ret = [op |-> "init"]

\* the manual closes of the check: a quoted ticker, everywhere or in the
\* oldest signature, at a given price
CloseStored ==
    \E t \in {"AA", "BB"},
       id \in {None, Some(signatures[1].signature_id)},
       price \in {Some(p) : p \in ManualPrices} :
        cmd_close(t, id, price)

NextStored ==
    \/ Tick
    \/ CloseStored

\* manual closes on stores of up to MaxStored signatures
SpecStored == InitStored /\ [][NextStored]_vars

\* The market clock alone: a week of instants around midnight, the opening
\* and the closing bell of every day, Monday to Sunday.
TimesOfDay ==
    {0, 1, MARKET_OPEN - 1, MARKET_OPEN, MARKET_OPEN + 1,
     MARKET_CLOSE - 1, MARKET_CLOSE, MARKET_CLOSE + 1, SecondsPerDay - 1}
Instants == {d * SecondsPerDay + s : d \in 0..6, s \in TimesOfDay}

InitMarket ==
    /\ signatures = <<>>
    /\ hash_index = EmptyDict
    /\ disk = None
    /\ runs = EmptyDict
    /\ clock \in Instants
    /\ ret = [op |-> "init"]

\* the clock moves on to the next instant of the week
Wait ==
    /\ \E t \in Instants :
         /\ t > clock
         /\ \A u \in Instants : u > clock => t <= u
         /\ clock' = t
    /\ UNCHANGED <<signatures, hash_index, disk, runs, ret>>

NextMarket ==
    \/ Wait
    \/ get_market_status_call

SpecMarket == InitMarket /\ [][NextMarket]_vars

\* process commands during which the clock may move on between
\* create_signature's reading of the market status (line 249) and the one
\* inside get_entry_prices (prices.py line 37)
Delays == {0, 1}

ProcessSlowly ==
    \E j \in Jobs, q \in EntryFeeds, dt \in Delays :
        \E f \in Files :
            /\ f.name = j[1]
            /\ create_signature(f.content, f.name, j[2],
                                parse_content(f.content), q, dt)

NextCross ==
    \/ Tick
    \/ ProcessSlowly
    \/ Delete

SpecCross == Init /\ [][NextCross]_vars

---------------------------------------------------------------------------
(* Properties *)

\* the contents of all the files
AllContents == {f.content : f \in Files \cup CollidingFiles}

\* the file of a set of files that has the name
FileNamed(files, name) == CHOOSE f \in files : f.name = name

\* the places of the store that hold a signature with the fingerprint
StoredWith(file_hash) ==
    {i \in DOMAIN signatures : signatures[i].file_hash = file_hash}

\* every position of every stored signature, as <<signature, ticker>> places
Places == {<<i, t>> \in (DOMAIN signatures) \X Tickers :
              t \in DOMAIN signatures[i].positions}

\* C1 - Idempotent ingestion.  When a signature with the fingerprint of
\* (content, mode) is in the store, processing the same content under the
\* same mode reports is_new = FALSE and the identity of that stored
\* signature, asks for no entry price, and leaves the store, the hash index,
\* the saved file and the artifacts as they were; the state being unchanged,
\* so does every repetition.  The identity a creation reports is the one its
\* signature is stored under, so the repeated call returns that of the first.
C1_IdempotentIngestion ==
    [][\A j \in Jobs, q \in EntryFeeds :
         LET f == FileNamed(Files, j[1])
             h == compute_file_hash(f.content, j[2])
         IN /\ (StoredWith(h) # {} /\ cmd_process(Files, j[1], j[2], q))
                => /\ ret'.op = "create_signature"
                   /\ ret'.is_new = FALSE
                   /\ \A i \in StoredWith(h) :
                        ret'.signature_id = signatures[i].signature_id
                   /\ ret'.entry_requests = <<>>
                   /\ UNCHANGED <<signatures, hash_index, disk, runs>>
            /\ (StoredWith(h) = {} /\ cmd_process(Files, j[1], j[2], q))
                => /\ ret'.is_new = TRUE
                   /\ \E i \in DOMAIN signatures' :
                        /\ signatures'[i].file_hash = h
                        /\ signatures'[i].signature_id = ret'.signature_id
       ]_vars

\* C1 witness: a repeated ingestion answered from the store, after a
\* position of that signature has been closed
C1_Witness ==
    /\ ret.op = "create_signature"
    /\ ret.is_new = FALSE
    /\ \E i \in DOMAIN signatures :
         /\ signatures[i].signature_id = ret.signature_id
         /\ get_open_tickers(signatures[i]) # DOMAIN signatures[i].positions

C3_LifecycleMonotone ==
    [][/\ \A i \in DOMAIN signatures, j \in DOMAIN signatures' :
            signatures[i].signature_id = signatures'[j].signature_id
            => /\ \A t \in DOMAIN signatures[i].positions :
                    signatures[i].positions[t].status = "closed"
                    => /\ t \in DOMAIN signatures'[j].positions
                       /\ signatures'[j].positions[t] = signatures[i].positions[t]
       /\ \A j \in DOMAIN signatures' :
            signatures'[j].signature_id \notin Keys(signatures)
            => \A t \in DOMAIN signatures'[j].positions :
                    signatures'[j].positions[t].status = "open"
       /\ \A id \in Keys(signatures), t \in Tickers :
            LET pos == Lookup(signatures, id).positions
            IN (t \in DOMAIN pos /\ pos[t].status = "closed")
               => /\ Position_close(id, t, CurrentQuotes["AA"], "sell_signal")
                     => ret'.result = Some(FALSE)
                  /\ \A p \in ManualPrices :
                       Signature_close_position(id, t, p, "manual")
                       => ret'.result = Some(FALSE)
      ]_vars

\* C4 - Identity uniqueness, as the code has it.  A creation that reports
\* is_new = TRUE assigns an identity that is not yet a key of the store,
\* keeps every stored signature and makes the store one longer, unless a
\* stored signature was created in the same clock second from a fingerprint
\* with the same identity digits: then the identity is that signature's, the
\* creation replaces it and the store keeps its length.
C4_IdentityUniqueUpToDigits ==
    [][\A j \in CollidingJobs, q \in EntryFeeds :
         LET f == FileNamed(Files \cup CollidingFiles, j[1])
             h == compute_file_hash(f.content, j[2])
             clash == {i \in DOMAIN signatures :
                          /\ signatures[i].created_at = IsoFormat(clock)
                          /\ IdDigits(signatures[i].file_hash) = IdDigits(h)}
         IN (cmd_process(Files \cup CollidingFiles, j[1], j[2], q)
             /\ ret'.is_new = TRUE)
            => IF clash = {}
               THEN /\ ret'.signature_id \notin Keys(signatures)
                    /\ Len(signatures') = Len(signatures) + 1
                    /\ SubSeq(signatures', 1, Len(signatures)) = signatures
               ELSE /\ \A i \in clash :
                         ret'.signature_id = signatures[i].signature_id
                    /\ Len(signatures') = Len(signatures)
                    /\ StoredWith(h) = {}
      ]_vars

\* C4 witness: two signatures created in the same clock second from two
\* inputs are both stored, the second just created
C4_Witness ==
    /\ ret.op = "create_signature"
    /\ ret.is_new = TRUE
    /\ Len(signatures) = 2
    /\ signatures[1].created_at = signatures[2].created_at
    /\ signatures[1].file_hash # signatures[2].file_hash

\* C4 as stated: every creation that reports is_new = TRUE assigns an
\* identity that is not a key of the store and makes the store one longer,
\* also for two inputs ingested within one clock second.
C4_IdentityUnique ==
    [][\A j \in CollidingJobs, q \in EntryFeeds :
         (cmd_process(Files \cup CollidingFiles, j[1], j[2], q)
          /\ ret'.is_new = TRUE)
         => /\ ret'.signature_id \notin Keys(signatures)
            /\ Len(signatures') = Len(signatures) + 1
      ]_vars

C6_ExitFieldsAllOrNothing ==
    LET Sound(pos) ==
            /\ pos.status \in {"open", "closed"}
            /\ pos.status = "closed"
               => (pos.exit_price # None /\ pos.exit_date # None
                   /\ pos.exit_reason # None)
            /\ pos.status = "open"
               => (pos.exit_price = None /\ pos.exit_date = None
                   /\ pos.exit_reason = None)
    IN /\ \A p \in Places : Sound(signatures[p[1]].positions[p[2]])
       /\ disk # None
          => \A i \in DOMAIN disk[1].signatures :
               \A t \in DOMAIN disk[1].signatures[i].positions :
                 Sound(disk[1].signatures[i].positions[t])

\* C6 witness: a signature holds a closed and an open position
C6_Witness ==
    \E p1 \in Places, p2 \in Places :
        /\ p1[1] = p2[1]
        /\ signatures[p1[1]].positions[p1[2]].status = "closed"
        /\ signatures[p2[1]].positions[p2[2]].status = "open"

\* C7 - P/L on close.  A closed position with entry price e > 0 and exit
\* price x has pnl_amt = x - e and pnl_pct = (x - e) / e * 100; a closed
\* position with e <= 0 has pnl_amt and pnl_pct None.
C7_PnlOnClose ==
    \A p \in Places :
        LET pos == signatures[p[1]].positions[p[2]]
        IN pos.status = "closed"
           => IF pos.entry_price > 0
              THEN /\ pos.pnl_amt = Some(pos.exit_price[1] - pos.entry_price)
                   /\ pos.pnl_pct =
                        Some(((pos.exit_price[1] - pos.entry_price) * 100)
                             \div pos.entry_price)
              ELSE /\ pos.pnl_amt = None
                   /\ pos.pnl_pct = None

\* C8 - No division by a non-positive entry price.  Neither check-sells nor
\* the manual close ends with an arithmetic error.
C8_NoZeroDivision ==
    ret.op \in {"cmd_check_sells", "cmd_close"}
    => ret.error # Some("ZeroDivisionError")

C10_AllModeSelection ==
    [][\A j \in Jobs, q \in EntryFeeds :
         LET p == parse_content(FileNamed(Files, j[1]).content)
             expected == (Range(p.strong_buys) \cup Range(p.early_buys)
                          \cup Range(p.buys)) \cap DOMAIN q
             category(t) == IF t \in Range(p.strong_buys) THEN "strong_buy"
                            ELSE IF t \in Range(p.early_buys) THEN "early_buy"
                            ELSE "buy"
         IN (j[2] = "all" /\ cmd_process(Files, j[1], j[2], q)
             /\ ret'.is_new = TRUE)
            => \E i \in DOMAIN signatures' :
                 /\ signatures'[i].signature_id = ret'.signature_id
                 /\ DOMAIN signatures'[i].positions = expected
                 /\ \A t \in expected :
                      signatures'[i].positions[t].category = category(t)
      ]_vars

\* C11 - Materialisation.  A creation makes exactly one entry-price request,
\* for the tickers selected by the mode; the positions of the new signature
\* are exactly the requested tickers that the response prices, each open,
\* without exit fields, with entry_price, entry_date and entry_type taken
\* from the response; and the creation reports is_new = TRUE and stores the
\* signature also when no ticker is priced.
C11_Materialisation ==
    [][\A j \in Jobs, q \in EntryFeeds :
         LET f == FileNamed(Files, j[1])
             h == compute_file_hash(f.content, j[2])
             selected == SelectTickers(j[2], parse_content(f.content)).buy_tickers
             response == get_entry_prices(selected, q, clock')
         IN (StoredWith(h) = {} /\ cmd_process(Files, j[1], j[2], q))
            => /\ ret'.is_new = TRUE
               /\ ret'.entry_requests = <<selected>>
               /\ \E i \in DOMAIN signatures' :
                    LET sig == signatures'[i]
                    IN /\ sig.signature_id = ret'.signature_id
                       /\ sig.file_hash = h
                       /\ DOMAIN sig.positions
                            = {t \in Range(selected) : t \in DOMAIN q}
                       /\ \A t \in DOMAIN sig.positions :
                            /\ sig.positions[t].ticker = t
                            /\ sig.positions[t].status = "open"
                            /\ sig.positions[t].entry_price = q[t]
                            /\ sig.positions[t].entry_price = response[t].price
                            /\ sig.positions[t].entry_date = response[t].date
                            /\ sig.positions[t].entry_type = response[t].price_type
                            /\ sig.positions[t].exit_price = None
                            /\ sig.positions[t].pnl_pct = None
      ]_vars

\* C11 witness: a signature has just been created with tickers requested
\* and none of them priced
C11_Witness ==
    /\ ret.op = "create_signature"
    /\ ret.is_new = TRUE
    /\ ret.entry_requests # <<>>
    /\ ret.entry_requests[1] # <<>>
    /\ \E i \in DOMAIN signatures :
         /\ signatures[i].signature_id = ret.signature_id
         /\ DOMAIN signatures[i].positions = {}

\* C12 - Ticker selection in the single-category modes.  A stored
\* signature of mode strong holds only strong_buy positions on tickers of
\* the strong-buy list of its content, one of mode early only early_buy
\* positions on tickers of the early-buy list, one of mode dividend only
\* dividend positions on tickers of the dividend list.
C12_SingleCategoryModes ==
    \A i \in DOMAIN signatures :
        LET sig == signatures[i]
            p == parse_content(runs[sig.output_file])
            list == CASE sig.mode = "strong" -> p.strong_buys
                      [] sig.mode = "early" -> p.early_buys
                      [] sig.mode = "dividend" -> p.dividends
                      [] OTHER -> <<>>
            category == CASE sig.mode = "strong" -> "strong_buy"
                          [] sig.mode = "early" -> "early_buy"
                          [] sig.mode = "dividend" -> "dividend"
                          [] OTHER -> ""
        IN sig.mode \in {"strong", "early", "dividend"}
           => /\ DOMAIN sig.positions \subseteq Range(list)
              /\ \A t \in DOMAIN sig.positions :
                   sig.positions[t].category = category

\* C12 witness: a signature of mode early tracks a ticker that is also a
\* strong buy, next to a signature of mode dividend with its position
C12_Witness ==
    \E i \in DOMAIN signatures, k \in DOMAIN signatures :
        /\ signatures[i].mode = "early"
        /\ DOMAIN signatures[i].positions = {"AA", "BB"}
        /\ "AA" \in Range(parse_content(runs[signatures[i].output_file]).strong_buys)
        /\ signatures[k].mode = "dividend"
        /\ DOMAIN signatures[k].positions = {"DD"}

\* C13 - Write-through persistence.  In every state, so after every
\* creation, every close by check-sells or by the manual close, and every
\* delete, the collection that the saved file holds is the collection in
\* memory: the same signatures in the same order with the same positions.
C13_WriteThrough == LoadedSignatures(disk) = signatures

\* C13 witness: check-sells has closed positions and returned
C13_Witness ==
    /\ ret.op = "cmd_check_sells"
    /\ ret.closed > 0
    /\ ret.error = None
    /\ disk # None
    /\ \E p \in Places : signatures[p[1]].positions[p[2]].status = "closed"

\* C14 - Atomic save.  At every instant, also after a save that was
\* interrupted, the ledger file holds a whole document, the previous
\* collection or the new one: a load never finds a file it cannot read.
C14_AtomicSave ==
    /\ Readable(disk)
    /\ ret.op = "_load" => "error" \notin DOMAIN ret

C16_Delete ==
    [][\A id \in SignatureArgs \cup UnknownArgs :
         LET found == get_by_id(signatures, id)
             sig == found[1]
         IN delete_signature(id)
            => IF found # None
               THEN /\ ret'.result = TRUE
                    /\ signatures' = SelectSeq(signatures,
                           LAMBDA x : x.signature_id # sig.signature_id)
                    /\ Len(signatures') = Len(signatures) - 1
                    /\ DOMAIN hash_index' = DOMAIN hash_index \ {sig.file_hash}
                    /\ \A h \in DOMAIN hash_index' : hash_index'[h] = hash_index[h]
                    /\ DOMAIN runs' = DOMAIN runs \ {sig.output_file}
                    /\ \A o \in DOMAIN runs' : runs'[o] = runs[o]
                    /\ LoadedSignatures(disk') = signatures'
               ELSE /\ ret'.result = FALSE
                    /\ UNCHANGED <<signatures, hash_index, runs, disk>>
      ]_vars

\* C16 witness: a signature has been deleted and another one is stored,
\* with its index entry, its artifact and its place in the file
C16_Witness ==
    /\ ret.op = "delete_signature"
    /\ ret.result = TRUE
    /\ Len(signatures) = 1
    /\ DOMAIN runs = {signatures[1].output_file}
    /\ DOMAIN hash_index = {signatures[1].file_hash}
    /\ LoadedSignatures(disk) = signatures

\* C17 - Identity lookup by prefix.  get_by_id(s) returns the signature
\* whose identity is s when there is one, also when s is a prefix of other
\* identities; otherwise the signature of the only stored identity that
\* starts with s; and None when no stored identity or more than one starts
\* with s.
C17_PrefixLookup ==
    [][\A s \in LookupTexts :
         LET exact == {i \in DOMAIN signatures : signatures[i].signature_id = s}
             prefixed == {i \in DOMAIN signatures :
                             LET id == signatures[i].signature_id
                             IN /\ Len(id) >= Len(s)
                                /\ \A n \in 1..Len(s) : id[n] = s[n]}
         IN get_by_id_call(s)
            => /\ exact # {}
                  => \E i \in exact :
                       /\ ret'.result = Some(s)
                       /\ get_by_id(signatures, s) = Some(signatures[i])
               /\ (exact = {} /\ Cardinality(prefixed) = 1)
                  => \E i \in prefixed :
                       /\ ret'.result = Some(signatures[i].signature_id)
                       /\ get_by_id(signatures, s) = Some(signatures[i])
               /\ (exact = {} /\ Cardinality(prefixed) # 1)
                  => /\ ret'.result = None
                     /\ get_by_id(signatures, s) = None
      ]_vars

\* C17 witness: a lookup has returned the signature whose identity is the
\* text given, in a store where that text is a prefix of two other identities
C17_Witness ==
    /\ ret.op = "get_by_id"
    /\ ret.result = Some(<<"a">>)
    /\ Keys(signatures) = {<<"a">>, <<"a", "b">>, <<"a", "c">>}

\* the positions check-sells is to close: a flagged ticker with an exit
\* price, in a signature that holds it open when the command starts
Flagged(sells) ==
    {<<i, t>> \in Places :
        /\ t \in Range(sells) \cap DOMAIN get_current_prices(Range(sells))
        /\ signatures[i].positions[t].status = "open"}

\* the position is closed by a sell signal at the price, today, with the
\* P/L of its own entry price
ClosedBySignal(pos, entry_price, price, today) ==
    /\ pos.status = "closed"
    /\ pos.exit_price = Some(price)
    /\ pos.exit_date = Some(today)
    /\ pos.exit_reason = Some("sell_signal")
    /\ pos.pnl_amt = Some(price - entry_price)
    /\ entry_price > 0
       => pos.pnl_pct = Some(((price - entry_price) * 100) \div entry_price)

\* C18 - Cross-signature close.  When check-sells flags a ticker that is open
\* in two or more signatures and has an exit price, then after the command
\* the ticker is closed in each of those signatures with that exit price,
\* the date of the command and the reason sell_signal, and with the P/L of
\* that signature's own entry price.
C18_CrossSignatureClose ==
    [][\A S \in SUBSET OpenTickers(signatures) : \A sells \in Orders(S) :
         cmd_check_sells(sells)
         => \A p \in Flagged(sells) :
              Len(OpenIn(signatures, p[2])) >= 2
              => ClosedBySignal(signatures'[p[1]].positions[p[2]],
                                signatures[p[1]].positions[p[2]].entry_price,
                                get_current_prices(Range(sells))[p[2]],
                                DateStr(clock))
      ]_vars

\* C19 - Batch failure isolation.  When check-sells flags a ticker for which
\* no exit price comes back, the batch goes on: that ticker's positions stay
\* as they were, every other flagged ticker is closed in every signature
\* that held it open, and the command returns a success result.
C19_BatchIsolation ==
    [][\A S \in SUBSET OpenTickers(signatures) : \A sells \in Orders(S) :
         (/\ cmd_check_sells(sells)
          /\ Range(sells) \ DOMAIN get_current_prices(Range(sells)) # {})
         => /\ ret'.success
            /\ ret'.closed = Cardinality(Flagged(sells))
            /\ \A p \in Flagged(sells) :
                 signatures'[p[1]].positions[p[2]].status = "closed"
            /\ \A p \in Places \ Flagged(sells) :
                 signatures'[p[1]].positions[p[2]]
                   = signatures[p[1]].positions[p[2]]
      ]_vars

\* C20 - Manual close failures leave the ledger unchanged.  cmd_close
\* returns a failure, closes nothing and saves nothing when the signature id
\* given does not resolve, when the ticker has no open position in the
\* resolved signature (not held, or closed already), when no id is given and
\* no signature holds the ticker open, and when no price is given and none
\* can be fetched.  Signature.close_position on a ticker the signature does
\* not hold returns False and changes no position.
C20_CloseFailures ==
    [][/\ \A t \in CloseTickers,
             id \in {None} \cup {Some(a) : a \in SignatureArgs},
             price \in {None} \cup {Some(p) : p \in ManualPrices} :
            LET resolved == {i \in DOMAIN signatures :
                               id # None
                               /\ get_by_id(signatures, id[1]) = Some(signatures[i])}
                holders == {i \in DOMAIN signatures :
                              /\ t \in DOMAIN signatures[i].positions
                              /\ signatures[i].positions[t].status = "open"}
            IN (/\ cmd_close(t, id, price)
                /\ \/ id # None /\ resolved = {}
                   \/ id # None /\ resolved \cap holders = {}
                   \/ id = None /\ holders = {}
                   \/ price = None /\ t \notin DOMAIN CurrentQuotes)
               => /\ ret'.success = FALSE
                  /\ ret'.closed = 0
                  /\ ret'.error \in {Some("Signature not found"),
                                     Some("No open position"),
                                     Some("Could not fetch price")}
                  /\ UNCHANGED <<signatures, hash_index, disk, runs>>
       /\ \A a \in Keys(signatures), t \in Tickers, p \in ManualPrices :
            (/\ Signature_close_position(a, t, p, "manual")
             /\ t \notin DOMAIN Lookup(signatures, a).positions)
            => /\ ret'.result = Some(FALSE)
               /\ UNCHANGED <<signatures, hash_index, disk, runs>>
      ]_vars

\* C20 witness: a manual close without a price has failed because no price
\* could be fetched for a position that is open and is still open, and the
\* file holds it open
C20_Witness ==
    /\ ret.op = "cmd_close"
    /\ ret.success = FALSE
    /\ ret.error = Some("Could not fetch price")
    /\ \E i \in DOMAIN signatures :
         /\ "DD" \in DOMAIN signatures[i].positions
         /\ signatures[i].positions["DD"].status = "open"
         /\ LoadedSignatures(disk)[i].positions["DD"].status = "open"

\* pnl_pct of the position of ticker t when sig holds it closed, else 0
ClosedPnl(sig, t) ==
    IF t \in DOMAIN sig.positions
    THEN IF sig.positions[t].status = "closed"
            /\ sig.positions[t].pnl_pct # None
         THEN sig.positions[t].pnl_pct[1] ELSE 0
    ELSE 0

\* C21 - Per-signature summary.  get_summary returns total_positions = the
\* number of positions, open_positions and closed_positions that count the
\* open and the closed ones and add up to the total, realized_pnl_pct = the
\* sum of the closed positions' pnl_pct, win_count = the closed positions
\* with pnl_pct > 0, loss_count = closed - win_count, win_rate = win_count /
\* closed_positions * 100 and 0 when nothing is closed; the call changes no
\* state.
C21_Summary ==
    [][\A id \in Keys(signatures) :
         LET sig == Lookup(signatures, id)
             s == ret'.summary
             n_open == Cardinality({t \in DOMAIN sig.positions :
                                      sig.positions[t].status = "open"})
             n_closed == Cardinality({t \in DOMAIN sig.positions :
                                        sig.positions[t].status = "closed"})
             n_win == Cardinality({t \in DOMAIN sig.positions :
                                     /\ sig.positions[t].status = "closed"
                                     /\ ClosedPnl(sig, t) > 0})
         IN get_summary_call(id)
            => /\ s.total_positions = Cardinality(DOMAIN sig.positions)
               /\ s.open_positions = n_open
               /\ s.closed_positions = n_closed
               /\ s.open_positions + s.closed_positions = s.total_positions
               /\ s.realized_pnl_pct
                    = ClosedPnl(sig, "AA") + ClosedPnl(sig, "BB")
                      + ClosedPnl(sig, "CC") + ClosedPnl(sig, "DD")
               /\ s.win_count = n_win
               /\ s.loss_count = n_closed - n_win
               /\ s.win_rate = IF n_closed = 0 THEN 0
                               ELSE (n_win * 100) \div n_closed
               /\ UNCHANGED <<signatures, hash_index, disk, runs, clock>>
      ]_vars

\* C21 witness: the summary of a signature with two closed positions, one
\* won and one lost, whose sum differs from their average
C21_Witness ==
    /\ ret.op = "get_summary"
    /\ ret.summary.closed_positions = 2
    /\ ret.summary.win_count = 1
    /\ ret.summary.loss_count = 1
    /\ ret.summary.realized_pnl_pct # 0
    /\ ret.summary.win_rate = 50

\* C22 - Unrealized P/L excludes unpriced positions.  In the signatures
\* list, the signature report, the HTML report and the HTML index, an open
\* position whose ticker has no current price is not among the positions
\* that enter the unrealized total and the count of its average, and the
\* total is the sum of the P/L of the priced open positions.
C22_UnpricedExcluded ==
    ret.op \in {"cmd_signatures", "cmd_report", "cmd_html"}
    => \A i \in DOMAIN ret.views :
         LET v == ret.views[i]
             sig == Lookup(signatures, v.signature_id)
             priced == {t \in get_open_tickers(sig) :
                          /\ t \in DOMAIN CurrentQuotes
                          /\ sig.positions[t].entry_price > 0}
         IN v.error = None
            => /\ v.entered \subseteq DOMAIN CurrentQuotes
               /\ v.total = SumOf([t \in priced |->
                                ((CurrentQuotes[t] - sig.positions[t].entry_price)
                                 * 100) \div sig.positions[t].entry_price])

\* C23 - Listing.  list_all(mode, limit) returns at most limit signatures,
\* newest first, and they are the newest of the candidates; with a mode
\* filter - strong, early, all or dividend - the candidates are the stored
\* signatures of exactly that mode, without one all stored signatures; the
\* call changes no state.
C23_Listing ==
    [][\A mode \in {None} \cup {Some(m) : m \in Modes}, limit \in Limits :
         LET candidates == {i \in DOMAIN signatures :
                              mode # None => signatures[i].mode = mode[1]}
             result == ret'.result
             returned == {i \in DOMAIN signatures :
                            \E r \in DOMAIN result :
                               result[r] = signatures[i].signature_id}
             created(id) == Lookup(signatures, id).created_at
         IN list_all_call(mode, limit)
            => /\ Len(result) <= limit
               /\ Len(result) = Cardinality(returned)
               /\ returned \subseteq candidates
               /\ Cardinality(returned) = limit \/ returned = candidates
               /\ \A r \in DOMAIN result, q \in DOMAIN result :
                    r < q => created(result[r]) >= created(result[q])
               /\ \A i \in returned, k \in candidates \ returned :
                    signatures[i].created_at >= signatures[k].created_at
               /\ UNCHANGED <<signatures, hash_index, disk, runs, clock>>
      ]_vars

\* C24 - Open-position index.  get_all_open_positions returns a mapping
\* whose keys are exactly the tickers open in some stored signature; the
\* list of a ticker holds one pair (signature_id, position) for each stored
\* signature that holds the ticker open, none for a closed position and
\* none twice; the call changes no state.
C24_OpenIndex ==
    [][get_all_open_positions_call
       => LET result == ret'.result
              holders(t) == {i \in DOMAIN signatures :
                               /\ t \in DOMAIN signatures[i].positions
                               /\ signatures[i].positions[t].status = "open"}
          IN /\ DOMAIN result = {t \in Tickers : holders(t) # {}}
             /\ \A t \in DOMAIN result :
                  /\ Len(result[t]) = Cardinality(holders(t))
                  /\ \A i \in holders(t) : \E r \in DOMAIN result[t] :
                       result[t][r] = <<signatures[i].signature_id,
                                        signatures[i].positions[t]>>
                  /\ \A r \in DOMAIN result[t] :
                       /\ result[t][r][2].status = "open"
                       /\ \E i \in holders(t) :
                            result[t][r][1] = signatures[i].signature_id
                  /\ \A r \in DOMAIN result[t], q \in DOMAIN result[t] :
                       result[t][r][1] = result[t][q][1] => r = q
             /\ UNCHANGED <<signatures, hash_index, disk, runs, clock>>
      ]_vars

\* C24 witness: of two stored signatures, the index lists a ticker once
\* that one of them holds closed
C24_Witness ==
    /\ ret.op = "get_all_open_positions"
    /\ Len(signatures) = 2
    /\ \E t \in DOMAIN ret.result :
         /\ Len(ret.result[t]) = 1
         /\ \E i \in DOMAIN signatures :
              /\ t \in DOMAIN signatures[i].positions
              /\ signatures[i].positions[t].status = "closed"

\* the content of the file a signature was created from
CreatedFrom(sig) == FileNamed(Files \cup CollidingFiles, sig.source_file).content

\* C25 - Raw content retrievable, with the exception of a replaced
\* signature.  After every operation, get_output_content returns for each
\* stored signature exactly the content it was created from, and the
\* artifact of a signature that stays in the store is neither removed nor
\* rewritten by the operation; a signature counts as staying when its
\* identity is still stored with the same fingerprint, which leaves out the
\* signature that a creation with the same identity replaces.
C25_ContentRetrievableUnlessReplaced ==
    [][/\ \A i \in DOMAIN signatures' :
            get_output_content(signatures', runs', signatures'[i].signature_id)
              = Some(CreatedFrom(signatures'[i]))
       /\ \A i \in DOMAIN signatures :
            (\E k \in DOMAIN signatures' :
                /\ signatures'[k].signature_id = signatures[i].signature_id
                /\ signatures'[k].file_hash = signatures[i].file_hash)
            => /\ signatures[i].output_file \in DOMAIN runs'
               /\ runs'[signatures[i].output_file]
                    = runs[signatures[i].output_file]
      ]_vars

\* C25 as stated - Raw content retrievable.  After every operation,
\* get_output_content returns for each stored signature exactly the content
\* it was created from, and no operation removes or rewrites the artifact
\* of a signature whose identity is still in the store afterwards.
C25_ContentRetrievable ==
    [][/\ \A i \in DOMAIN signatures' :
            get_output_content(signatures', runs', signatures'[i].signature_id)
              = Some(CreatedFrom(signatures'[i]))
       /\ \A i \in DOMAIN signatures :
            signatures[i].signature_id \in Keys(signatures')
            => /\ signatures[i].output_file \in DOMAIN runs'
               /\ runs'[signatures[i].output_file]
                    = runs[signatures[i].output_file]
      ]_vars

\* C25 witness: two signatures created from different contents are
\* stored, a position has been closed since, and each content is retrievable
C25_Witness ==
    /\ Len(signatures) = 2
    /\ CreatedFrom(signatures[1]) # CreatedFrom(signatures[2])
    /\ \A i \in DOMAIN signatures :
         get_output_content(signatures, runs, signatures[i].signature_id)
           = Some(CreatedFrom(signatures[i]))
    /\ \E p \in Places : signatures[p[1]].positions[p[2]].status = "closed"

\* C26 - Position set is fixed at creation.  For a signature that stays in
\* the store, no operation adds or removes a ticker of its positions or
\* changes a position's ticker, category, entry_price, entry_date or
\* entry_type; a position changes at most once, from open to closed: a
\* closed position is never changed again.
C26_PositionsFixed ==
    [][\A i \in DOMAIN signatures, k \in DOMAIN signatures' :
         (/\ signatures'[k].signature_id = signatures[i].signature_id
          /\ signatures'[k].file_hash = signatures[i].file_hash)
         => /\ DOMAIN signatures'[k].positions = DOMAIN signatures[i].positions
            /\ \A t \in DOMAIN signatures[i].positions :
                 LET old == signatures[i].positions[t]
                     new == signatures'[k].positions[t]
                 IN /\ new.ticker = old.ticker
                    /\ new.category = old.category
                    /\ new.entry_price = old.entry_price
                    /\ new.entry_date = old.entry_date
                    /\ new.entry_type = old.entry_type
                    /\ new # old => old.status = "open" /\ new.status = "closed"
      ]_vars

\* the position is closed by hand at the price
ClosedByHand(pos, price) ==
    /\ pos.status = "closed"
    /\ pos.exit_price = Some(price)
    /\ pos.exit_reason = Some("manual")

\* C27 - Manual close without a signature argument closes everywhere.
\* cmd_close(ticker) with a price and no signature id closes the ticker,
\* with reason manual and that price, in every stored signature that holds
\* it open, however many are stored, and changes no position of another
\* ticker; with a signature id it closes the ticker in the resolved
\* signature only and changes no other position.
C27_CloseEverywhere ==
    [][\A t \in {"AA", "BB"}, p \in ManualPrices,
          id \in {None, Some(signatures[1].signature_id)} :
         LET holders == {i \in DOMAIN signatures :
                           /\ t \in DOMAIN signatures[i].positions
                           /\ signatures[i].positions[t].status = "open"}
             chosen == IF id = None THEN holders ELSE holders \cap {1}
         IN (cmd_close(t, id, Some(p)) /\ chosen # {})
            => /\ Len(signatures') = Len(signatures)
               /\ \A i \in DOMAIN signatures :
                    /\ signatures'[i].signature_id = signatures[i].signature_id
                    /\ \A u \in DOMAIN signatures[i].positions :
                         IF i \in chosen /\ u = t
                         THEN ClosedByHand(signatures'[i].positions[u], p)
                         ELSE signatures'[i].positions[u]
                                = signatures[i].positions[u]
      ]_vars

\* The four cases of get_market_status, by the calendar
Weekend(t) == (t \div SecondsPerDay) % 7 \in {5, 6}
PreMarket(t) == ~Weekend(t) /\ t % SecondsPerDay < MARKET_OPEN
Intraday(t) ==
    /\ ~Weekend(t)
    /\ t % SecondsPerDay >= MARKET_OPEN
    /\ t % SecondsPerDay < MARKET_CLOSE
AfterHours(t) == ~Weekend(t) /\ t % SecondsPerDay >= MARKET_CLOSE
CasesThatApply(t) ==
    {c \in {"weekend", "pre", "intraday", "after"} :
        \/ c = "weekend" /\ Weekend(t)
        \/ c = "pre" /\ PreMarket(t)
        \/ c = "intraday" /\ Intraday(t)
        \/ c = "after" /\ AfterHours(t)}

\* C28: get_market_status gives price_type previous_close at any time on
\* Saturday and Sunday, and on weekdays previous_close strictly before
\* 09:30, open from 09:30 inclusive to 16:00 exclusive, close from 16:00
\* inclusive; exactly one of the four cases applies to the instant, and
\* is_open is true only in the intraday case.
C28_PriceConvention ==
    ret.op = "get_market_status" =>
        LET t == ret.now
            status == ret.status
        IN /\ Cardinality(CasesThatApply(t)) = 1
           /\ Weekend(t) => status.price_type = "previous_close"
           /\ PreMarket(t) => status.price_type = "previous_close"
           /\ Intraday(t) => status.price_type = "open"
           /\ AfterHours(t) => status.price_type = "close"
           /\ status.is_open <=> Intraday(t)

\* C28 witness: the status was read on a weekday at 09:30 sharp and names
\* the opening price with the market open.
C28_Witness ==
    /\ ret.op = "get_market_status"
    /\ ~Weekend(ret.now)
    /\ ret.now % SecondsPerDay = MARKET_OPEN
    /\ ret.status.price_type = "open"
    /\ ret.status.is_open

\* the fingerprints of the inputs processed under SpecCollide
CollidingHashes ==
    {compute_file_hash(FileNamed(Files \cup CollidingFiles, j[1]).content, j[2]) :
        j \in CollidingJobs}

\* the signature indexed under file_hash took over, in the second of its
\* creation, the identity of the one that was stored with that fingerprint
TookOver(sig, file_hash) ==
    /\ sig.file_hash # file_hash
    /\ IdDigits(sig.file_hash) = IdDigits(file_hash)
    /\ file_hash \in DOMAIN hash_index'
    /\ hash_index'[file_hash] = sig.signature_id

\* C29, as the code has it: after every step get_by_hash(h) returns nothing,
\* or a signature whose file_hash is h, or the signature that replaced that
\* one by a creation in the same second with the same identity digits; a
\* create_signature that reports is_new = FALSE returns a signature with the
\* fingerprint and the mode asked for, or such a replacement; and when no
\* stored signature has the fingerprint and the index does not lead from it
\* to a stored signature, the call creates one.
C29_DedupLookupUnlessReplaced ==
    [][/\ \A h \in CollidingHashes :
            LET found == get_by_hash(signatures', hash_index', h)
            IN found # None
               => (found[1].file_hash = h \/ TookOver(found[1], h))
       /\ \A j \in CollidingJobs, q \in EntryFeeds :
            LET f == FileNamed(Files \cup CollidingFiles, j[1])
                h == compute_file_hash(f.content, j[2])
                stale == /\ h \in DOMAIN hash_index
                         /\ hash_index[h] \in Keys(signatures)
            IN cmd_process(Files \cup CollidingFiles, j[1], j[2], q)
               => /\ ret'.is_new = FALSE
                     => LET existing == Lookup(signatures', ret'.signature_id)
                        IN \/ existing.file_hash = h /\ existing.mode = j[2]
                           \/ TookOver(existing, h)
                  /\ (StoredWith(h) = {} /\ ~stale)
                     => /\ ret'.is_new = TRUE
                        /\ \E i \in DOMAIN signatures' :
                             /\ signatures'[i].file_hash = h
                             /\ signatures'[i].mode = j[2]
                             /\ signatures'[i].signature_id = ret'.signature_id
      ]_vars

\* C29 as stated: after every step get_by_hash(h) returns nothing or a
\* signature whose file_hash is h; a create_signature that reports
\* is_new = FALSE returns a signature with the fingerprint and the mode
\* asked for; and when no stored signature has the fingerprint the call
\* creates one.
C29_DedupLookup ==
    [][/\ \A h \in CollidingHashes :
            LET found == get_by_hash(signatures', hash_index', h)
            IN found # None => found[1].file_hash = h
       /\ \A j \in CollidingJobs, q \in EntryFeeds :
            LET f == FileNamed(Files \cup CollidingFiles, j[1])
                h == compute_file_hash(f.content, j[2])
            IN cmd_process(Files \cup CollidingFiles, j[1], j[2], q)
               => /\ ret'.is_new = FALSE
                     => LET existing == Lookup(signatures', ret'.signature_id)
                        IN existing.file_hash = h /\ existing.mode = j[2]
                  /\ StoredWith(h) = {} => ret'.is_new = TRUE
      ]_vars

\* C29 witness: a file was processed again and the call returned, as not
\* new, the signature the index holds for its fingerprint, which is stored
\* with another fingerprint
C29_Witness ==
    /\ ret.op = "create_signature"
    /\ ret.is_new = FALSE
    /\ \E h \in DOMAIN hash_index :
         /\ hash_index[h] = ret.signature_id
         /\ ret.signature_id \in Keys(signatures)
         /\ Lookup(signatures, ret.signature_id).file_hash # h

\* the price convention a market_status description names
ConventionNamed(description) ==
    CASE description = "Weekend - using Friday close" -> "previous_close"
      [] description = "Pre-market - using previous close" -> "previous_close"
      [] description = "After hours - using today close" -> "close"
      [] description = "Market open - using today open" -> "open"

\* C30: for every stored signature, the price convention its market_status
\* names is the entry_type of every one of its positions, also when the
\* clock passed 16:00 between the two readings of the market status.
C30_StatusAgrees ==
    \A i \in DOMAIN signatures :
        \A t \in DOMAIN signatures[i].positions :
            signatures[i].positions[t].entry_type =
                ConventionNamed(signatures[i].market_status)

====
